---- MODULE Spec2Model ----
(***************************************************************************)
(* Transmission-line parameter calculator (transmission_line.py).          *)
(*                                                                         *)
(* The two line models are pure functions over binary floating-point       *)
(* numbers.  Numbers are modelled as binary floats with a Prec-bit         *)
(* significand, round-to-nearest-even, signed zeros, infinities and NaN;   *)
(* the exponent range is not bounded (no input of the model comes near     *)
(* the overflow or underflow threshold of a double).  Arguments are Python *)
(* numbers (int or float), as in the script's own calls: a division whose  *)
(* two operands are Python numbers raises ZeroDivisionError on a zero      *)
(* divisor, a division with a numpy operand returns inf or nan instead.    *)
(***************************************************************************)
EXTENDS Integers, Sequences, FiniteSets, TLC

\* Significand width of the modelled floats (a double has 53).
Prec == 11

VARIABLES
    name,       \* __name__: "__main__" (script) or "transmission_line" (import)
    pc,         \* position in the script, or "imported"
    main_length, \* the script's global `length`, the loop variable of the sweep
    params,     \* the result of the sweep's last call
    console,    \* lines printed so far
    csv_data,   \* the table accumulated for the export
    written,    \* contents of every write of transmission_line_results.csv
    cur,        \* a client's latest call: function, arguments, outcome
    prev        \* the client's call before that one

vars == <<name, pc, main_length, params, console, csv_data, written, cur, prev>>

----------------------------------------------------------------------------
(* Floating-point values *)

NaN == [k |-> "nan", s |-> 0, m |-> 0, e |-> 0]
Inf(s) == [k |-> "inf", s |-> s, m |-> 0, e |-> 0]
Zero(s) == [k |-> "fin", s |-> s, m |-> 0, e |-> 0]

IsNaN(x) == x.k = "nan"
IsInf(x) == x.k = "inf"
IsFinite(x) == x.k = "fin"
IsZero(x) == x.k = "fin" /\ x.m = 0

Xor(a, b) == IF a = b THEN 0 ELSE 1

RECURSIVE BitLen(_)
\* Number of bits of a natural number (0 for 0).
BitLen(n) == IF n = 0 THEN 0 ELSE 1 + BitLen(n \div 2)

\* The float nearest to (-1)^s * (M + t) * 2^e, where 0 < t < 1 when sticky
\* and t = 0 otherwise; ties go to the even significand.
Round(s, M, e, sticky) ==
    IF M = 0 THEN Zero(s)
    ELSE LET L == BitLen(M) IN
         IF L <= Prec
         THEN [k |-> "fin", s |-> s, m |-> M * 2^(Prec - L), e |-> e - (Prec - L)]
         ELSE LET drop == L - Prec
                  q == M \div 2^drop
                  r == M % 2^drop
                  half == 2^(drop - 1)
                  up == \/ r > half
                        \/ r = half /\ sticky
                        \/ r = half /\ ~sticky /\ q % 2 = 1
                  q1 == IF up THEN q + 1 ELSE q
              IN IF q1 = 2^Prec
                 THEN [k |-> "fin", s |-> s, m |-> 2^(Prec - 1), e |-> e + drop + 1]
                 ELSE [k |-> "fin", s |-> s, m |-> q1, e |-> e + drop]

\* A Python int as a float.
FromInt(n) == IF n < 0 THEN Round(1, -n, 0, FALSE) ELSE Round(0, n, 0, FALSE)

\* A decimal literal, given by the leading 24 bits of its double: M * 2^e.
Lit(M, e) == Round(0, M, e, FALSE)

fneg(x) == IF IsNaN(x) THEN NaN ELSE [x EXCEPT !.s = 1 - x.s]
fabs(x) == IF IsNaN(x) THEN NaN ELSE [x EXCEPT !.s = 0]

\* x * y
fmul(x, y) ==
    IF IsNaN(x) \/ IsNaN(y) THEN NaN
    ELSE IF IsInf(x) \/ IsInf(y)
         THEN IF IsZero(x) \/ IsZero(y) THEN NaN ELSE Inf(Xor(x.s, y.s))
    ELSE Round(Xor(x.s, y.s), x.m * y.m, x.e + y.e, FALSE)

\* x / y with IEEE semantics (numpy division): x/0 is inf, 0/0 is nan.
fdiv(x, y) ==
    IF IsNaN(x) \/ IsNaN(y) THEN NaN
    ELSE IF IsInf(x) THEN (IF IsInf(y) THEN NaN ELSE Inf(Xor(x.s, y.s)))
    ELSE IF IsInf(y) THEN Zero(Xor(x.s, y.s))
    ELSE IF IsZero(y) THEN (IF IsZero(x) THEN NaN ELSE Inf(Xor(x.s, y.s)))
    ELSE IF IsZero(x) THEN Zero(Xor(x.s, y.s))
    ELSE LET N == x.m * 2^(Prec + 1)
         IN Round(Xor(x.s, y.s), N \div y.m, x.e - y.e - (Prec + 1), N % y.m # 0)

\* Sum of two finite non-zero floats, |x| having the larger or equal exponent.
AddOrdered(x, y) ==
    LET gap == x.e - y.e IN
    IF gap > Prec + 1
    THEN \* y only decides the rounding direction
         IF x.s = y.s
         THEN Round(x.s, x.m * 4, x.e - 2, TRUE)
         ELSE Round(x.s, x.m * 4 - 1, x.e - 2, TRUE)
    ELSE LET a == x.m * 2^gap
             b == y.m
         IN IF x.s = y.s THEN Round(x.s, a + b, y.e, FALSE)
            ELSE IF a > b THEN Round(x.s, a - b, y.e, FALSE)
            ELSE IF a < b THEN Round(y.s, b - a, y.e, FALSE)
            ELSE Zero(0)

\* x + y
fadd(x, y) ==
    IF IsNaN(x) \/ IsNaN(y) THEN NaN
    ELSE IF IsInf(x) THEN (IF IsInf(y) /\ x.s # y.s THEN NaN ELSE x)
    ELSE IF IsInf(y) THEN y
    ELSE IF IsZero(x) /\ IsZero(y) THEN Zero(IF x.s = 1 /\ y.s = 1 THEN 1 ELSE 0)
    ELSE IF IsZero(x) THEN y
    ELSE IF IsZero(y) THEN x
    ELSE IF x.e >= y.e THEN AddOrdered(x, y) ELSE AddOrdered(y, x)

\* x - y
fsub(x, y) == fadd(x, fneg(y))

RECURSIVE ISqrtIter(_, _, _)
\* Largest r in lo..hi with r * r <= n (binary search).
ISqrtIter(n, lo, hi) ==
    IF lo = hi THEN lo
    ELSE LET mid == (lo + hi + 1) \div 2
         IN IF mid * mid <= n THEN ISqrtIter(n, mid, hi) ELSE ISqrtIter(n, lo, mid - 1)

\* np.sqrt: nan for a negative argument, no exception.
fsqrt(x) ==
    IF IsNaN(x) THEN NaN
    ELSE IF IsZero(x) THEN x
    ELSE IF x.s = 1 THEN NaN
    ELSE IF IsInf(x) THEN x
    ELSE LET sh == IF (x.e - (Prec + 1)) % 2 = 0 THEN Prec + 1 ELSE Prec + 2
             N == x.m * 2^sh
             r == ISqrtIter(N, 0, 2^(Prec + 2))
         IN Round(0, r, (x.e - sh) \div 2, r * r # N)

\* Comparisons of Python floats: every comparison with nan is false.
flt(x, y) ==
    IF IsNaN(x) \/ IsNaN(y) THEN FALSE
    ELSE LET d == fsub(x, y) IN
         IF IsNaN(d) THEN FALSE   \* inf - inf: equal infinities
         ELSE d.s = 1 /\ ~IsZero(d)
feq(x, y) ==
    IF IsNaN(x) \/ IsNaN(y) THEN FALSE
    ELSE IF IsZero(x) /\ IsZero(y) THEN TRUE
    ELSE x = y
fle(x, y) == flt(x, y) \/ feq(x, y)

One == FromInt(1)
Two == FromInt(2)

\* math.log(2), used by the range reduction of flog.
LN2 == Lit(1453635, -21)

\* 2 atanh(z) = 2 z (1 + w/3 + w^2/5 + w^3/7 + w^4/9) with w = z^2.
LogSeries(z, w) ==
    fmul(fmul(Two, z),
         fadd(One, fmul(w,
         fadd(fdiv(One, FromInt(3)), fmul(w,
         fadd(fdiv(One, FromInt(5)), fmul(w,
         fadd(fdiv(One, FromInt(7)), fmul(w,
         fdiv(One, FromInt(9)))))))))))

\* ln(f * 2^E) for f in [sqrt(1/2), sqrt(2)), with z = (f - 1) / (f + 1).
LogReduced(z, E) == fadd(fmul(FromInt(E), LN2), LogSeries(z, fmul(z, z)))

\* The exponent E with x = f * 2^E and f in [sqrt(1/2), sqrt(2)).
LogExponent(x) ==
    IF x.m * x.m >= 2^(2 * Prec - 1) THEN x.e + Prec ELSE x.e + Prec - 1

LogZ(f) == fdiv(fsub(f, One), fadd(f, One))

\* np.log: nan for a negative argument, -inf for zero, no exception.  A
\* positive finite x is reduced to f * 2^E with f in [sqrt(1/2), sqrt(2)) and
\* ln f = 2 atanh((f - 1) / (f + 1)) is summed as a series in float arithmetic.
flog(x) ==
    IF IsNaN(x) THEN NaN
    ELSE IF IsZero(x) THEN Inf(1)
    ELSE IF x.s = 1 THEN NaN
    ELSE IF IsInf(x) THEN x
    ELSE LogReduced(LogZ([x EXCEPT !.e = x.e - LogExponent(x)]), LogExponent(x))

----------------------------------------------------------------------------
(* The two line models *)

np_pi == Lit(13176795, -22)
epsilon_0 == Lit(10207967, -60)
\* mu_0 = 4 * np.pi * 1e-7
mu_0 == fmul(fmul(FromInt(4), np_pi), Lit(14073749, -47))

Return(R, L, C, G) ==
    [kind |-> "return", val |-> [R |-> R, L |-> L, C |-> C, G |-> G]]
Raise(exc) == [kind |-> "raise", exc |-> exc]

\* Lines 23 and 66: the surface resistance.
Rs(freq, mu_c, sigma_c) == fsqrt(fdiv(fmul(fmul(np_pi, freq), mu_c), sigma_c))

\* LogTerm with the sign of the root flipped: D/d - sqrt((D/d)**2 - 1).
LogTerm_minus_root(r) == flog(fsub(r, fsqrt(fsub(fmul(r, r), One))))

\* Lines 28, 31, 34: np.log(D/d + np.sqrt((D/d)**2 - 1)), r being D/d.
LogTerm(r) == flog(fadd(r, fsqrt(fsub(fmul(r, r), One))))

\* two_wire_totals leaving G out of the record when sigma is zero.
two_wire_totals_optional_G(R_per_m, lg, mu_i, epsilon, sigma, length) ==
    IF IsZero(sigma)
    THEN [kind |-> "return",
          val |-> [R |-> fmul(R_per_m, length),
                   L |-> fmul(fmul(fdiv(mu_i, np_pi), lg), length),
                   C |-> fmul(fdiv(fmul(np_pi, epsilon), lg), length)]]
    ELSE Return(fmul(R_per_m, length),
                fmul(fmul(fdiv(mu_i, np_pi), lg), length),
                fmul(fdiv(fmul(np_pi, epsilon), lg), length),
                fmul(fdiv(fmul(np_pi, sigma), lg), length))

\* two_wire_totals returning the per-unit resistance unscaled (R = R_per_m).
two_wire_totals_unscaled_R(R_per_m, lg, mu_i, epsilon, sigma, length) ==
    Return(R_per_m,
           fmul(fmul(fdiv(mu_i, np_pi), lg), length),
           fmul(fdiv(fmul(np_pi, epsilon), lg), length),
           fmul(fdiv(fmul(np_pi, sigma), lg), length))

\* two_wire_totals dividing the capacitance by the length (C = C_per_m / length).
two_wire_totals_C_over_length(R_per_m, lg, mu_i, epsilon, sigma, length) ==
    Return(fmul(R_per_m, length),
           fmul(fmul(fdiv(mu_i, np_pi), lg), length),
           fdiv(fdiv(fmul(np_pi, epsilon), lg), length),
           fmul(fdiv(fmul(np_pi, sigma), lg), length))

\* Lines 28-46, from the per-unit resistance and the logarithm on.
two_wire_totals(R_per_m, lg, mu_i, epsilon, sigma, length) ==
    Return(fmul(R_per_m, length),
           fmul(fmul(fdiv(mu_i, np_pi), lg), length),
           fmul(fdiv(fmul(np_pi, epsilon), lg), length),
           fmul(fdiv(fmul(np_pi, sigma), lg), length))

\* cal_two_wire_params reading the script's global `length` where it should
\* read its own parameter.
cal_two_wire_params_global_length(d, D, epsilon_r, mu_ri, mu_rc, sigma, sigma_c, length, freq) ==
    IF IsZero(sigma_c) THEN Raise("ZeroDivisionError")
    ELSE IF IsZero(d) THEN Raise("ZeroDivisionError")
    ELSE two_wire_totals(
             fdiv(fmul(Two, Rs(freq, fmul(mu_0, mu_rc), sigma_c)), fmul(np_pi, d)),
             LogTerm(fdiv(D, d)),
             fmul(mu_0, mu_ri), fmul(epsilon_0, epsilon_r), sigma,
             FromInt(main_length))

cal_two_wire_params(d, D, epsilon_r, mu_ri, mu_rc, sigma, sigma_c, length, freq) ==
    \* line 23: Python float division by sigma_c
    IF IsZero(sigma_c) THEN Raise("ZeroDivisionError")
    \* line 25 divides a numpy float (no exception); line 28: Python float D/d
    ELSE IF IsZero(d) THEN Raise("ZeroDivisionError")
    ELSE two_wire_totals(
             fdiv(fmul(Two, Rs(freq, fmul(mu_0, mu_rc), sigma_c)), fmul(np_pi, d)),
             LogTerm(fdiv(D, d)),
             fmul(mu_0, mu_ri), fmul(epsilon_0, epsilon_r), sigma, length)

\* Lines 71-89, from the per-unit resistance and the logarithm on.
coaxial_totals(R_per_m, lg, mu_i, epsilon, sigma, length) ==
    Return(fmul(R_per_m, length),
           fmul(fmul(fdiv(mu_i, fmul(Two, np_pi)), lg), length),
           fmul(fdiv(fmul(fmul(Two, np_pi), epsilon), lg), length),
           fmul(fdiv(fmul(fmul(Two, np_pi), sigma), lg), length))

cal_coaxial_params(a, b, epsilon_r, mu_ri, mu_rc, sigma, sigma_c, length, freq) ==
    \* line 66: Python float division by sigma_c
    IF IsZero(sigma_c) THEN Raise("ZeroDivisionError")
    \* line 68: Python float divisions 1/a and 1/b
    ELSE IF IsZero(a) \/ IsZero(b) THEN Raise("ZeroDivisionError")
    ELSE coaxial_totals(
             fmul(fdiv(Rs(freq, fmul(mu_0, mu_rc), sigma_c), fmul(Two, np_pi)),
                  fadd(fdiv(One, a), fdiv(One, b))),
             flog(fdiv(b, a)),
             fmul(mu_0, mu_ri), fmul(epsilon_0, epsilon_r), sigma, length)

----------------------------------------------------------------------------
(* The module as a program: run as a script it sweeps the cable length and *)
(* exports a CSV; imported, its two functions are called by a client.      *)

None == [kind |-> "none"]

\* Arguments of the script's calls (lines 97-104).
main_d == Lit(6983617, -33)
main_D == Lit(5368709, -28)
main_epsilon_r == FromInt(1)
main_mu_ri == FromInt(1)
main_mu_rc == FromInt(1)
main_sigma == Lit(14167099, -72)
main_sigma_c == Lit(453125, 7)
main_freq == FromInt(60)

RangeStart == 100
\* A range that stops one step early.
RangeStop_one_short == 5100 - 100
RangeStop == 5100
RangeStep == 100

Header == <<"Length (m)", "R (Ohm)", "L (H)", "C (F)", "G (S)">>

\* Arguments a client passes: <<d, D>> or <<a, b>>, <<freq, sigma_c>>, sigma
\* and length, as Python ints.
Geometries ==
    {<<1, 3>>, <<1, 2>>, <<2, 2>>, <<3, 2>>, <<0, 2>>, <<2, 0>>, <<-1, 2>>, <<-1, -3>>}
Materials == {<<60, 2>>, <<0, 2>>, <<-1, 2>>, <<60, 0>>, <<60, -1>>, <<-1, -1>>}
Sigmas == {0, 1}
Lengths == {0, 1, 3}
MoreLengths == {0, 2, 6, 7}
Functions == {"cal_two_wire_params", "cal_coaxial_params"}

\* The call fn(*args).
Apply(fn, args) ==
    IF fn = "cal_two_wire_params"
    THEN cal_two_wire_params(args[1], args[2], args[3], args[4], args[5],
                             args[6], args[7], args[8], args[9])
    ELSE cal_coaxial_params(args[1], args[2], args[3], args[4], args[5],
                            args[6], args[7], args[8], args[9])

Init ==
    /\ name \in {"__main__", "transmission_line"}
    /\ pc = IF name = "__main__" THEN "banner" ELSE "imported"
    /\ main_length = 0
    /\ params = None
    /\ console = <<>>
    /\ csv_data = <<>>
    /\ written = <<>>
    /\ cur = None
    /\ prev = None

\* Lines 107-110: the title and the column heads.
Banner ==
    /\ pc = "banner"
    /\ console' = console \o <<"Two-Wire Transmission Line Parameters", "=",
                              Header, "-">>
    /\ pc' = "csv_init"
    /\ UNCHANGED <<name, main_length, params, csv_data, written, cur, prev>>

\* Lines 113-114.
CsvInit ==
    /\ pc = "csv_init"
    /\ csv_data' = <<Header>>
    /\ main_length' = RangeStart
    /\ pc' = "for"
    /\ UNCHANGED <<name, params, console, written, cur, prev>>

\* Line 116: the loop test of range(100, 5100, 100).
ForEnter ==
    /\ pc = "for"
    /\ main_length < RangeStop
    /\ pc' = "call"
    /\ UNCHANGED <<name, main_length, params, console, csv_data, written, cur, prev>>

ForExit ==
    /\ pc = "for"
    /\ ~(main_length < RangeStop)
    /\ pc' = "write"
    /\ UNCHANGED <<name, main_length, params, console, csv_data, written, cur, prev>>

\* Line 117.
SweepCall ==
    /\ pc = "call"
    /\ params' = cal_two_wire_params(main_d, main_D, main_epsilon_r, main_mu_ri,
                                     main_mu_rc, main_sigma, main_sigma_c,
                                     FromInt(main_length), main_freq)
    /\ pc' = IF params'.kind = "return" THEN "print" ELSE "crashed"
    /\ UNCHANGED <<name, main_length, console, csv_data, written, cur, prev>>

\* Line 118.  The rendering of a number's digits is not modelled: a console
\* row is the cells in the order they are printed.
SweepPrint ==
    /\ pc = "print"
    /\ console' = Append(console, <<main_length, params.val.R, params.val.L,
                                    params.val.C, params.val.G>>)
    /\ pc' = "append"
    /\ UNCHANGED <<name, main_length, params, csv_data, written, cur, prev>>

\* Line 121, and the step of the range.
SweepAppend ==
    /\ pc = "append"
    /\ csv_data' = Append(csv_data, <<main_length, params.val.R, params.val.L,
                                      params.val.C, params.val.G>>)
    /\ main_length' = main_length + RangeStep
    /\ pc' = "for"
    /\ UNCHANGED <<name, params, console, written, cur, prev>>

\* Lines 124-127.
WriteCsv ==
    /\ pc = "write"
    /\ written' = Append(written, csv_data)
    /\ pc' = "report"
    /\ UNCHANGED <<name, main_length, params, console, csv_data, cur, prev>>

\* Line 129.
Report ==
    /\ pc = "report"
    /\ console' = Append(console, "Results exported to transmission_line_results.csv")
    /\ pc' = "done"
    /\ UNCHANGED <<name, main_length, params, csv_data, written, cur, prev>>

MakeArgs(g, mat, sg, len) ==
    <<FromInt(g[1]), FromInt(g[2]), One, One, One, FromInt(sg), FromInt(mat[2]),
      FromInt(len), FromInt(mat[1])>>

\* A client's first call.
Call(fn, g, mat, sg, len) ==
    /\ pc = "imported"
    /\ cur = None
    /\ cur' = [fn |-> fn, args |-> MakeArgs(g, mat, sg, len),
               ret |-> Apply(fn, MakeArgs(g, mat, sg, len))]
    /\ UNCHANGED <<name, pc, main_length, params, console, csv_data, written, prev>>

\* The client calls the same function again, with another length or the same.
CallAgain(len) ==
    /\ pc = "imported"
    /\ cur # None
    /\ prev = None
    /\ cur' = [fn |-> cur.fn, args |-> [cur.args EXCEPT ![8] = FromInt(len)],
               ret |-> Apply(cur.fn, [cur.args EXCEPT ![8] = FromInt(len)])]
    /\ prev' = cur
    /\ UNCHANGED <<name, pc, main_length, params, console, csv_data, written>>

Next ==
    \/ Banner
    \/ CsvInit
    \/ ForEnter
    \/ ForExit
    \/ SweepCall
    \/ SweepPrint
    \/ SweepAppend
    \/ WriteCsv
    \/ Report
    \/ \E fn \in Functions, g \in Geometries, mat \in Materials, sg \in Sigmas,
          len \in Lengths : Call(fn, g, mat, sg, len)
    \/ \E len \in Lengths \cup MoreLengths : CallAgain(len)

Spec == Init /\ [][Next]_vars
----------------------------------------------------------------------------
(* Properties *)

Keys == {"R", "L", "C", "G"}
TwoWire(c) == c # None /\ c.fn = "cal_two_wire_params"
Coaxial(c) == c # None /\ c.fn = "cal_coaxial_params"
Returned(c) == c # None /\ c.ret.kind = "return"
Raised(c, excs) == c # None /\ c.ret.kind = "raise" /\ c.ret.exc \in excs

\* The outer dimension over the inner one, D/d or b/a, is defined and <= 1.
RatioAtMostOne(c) ==
    ~IsZero(c.args[1]) /\ fle(fdiv(c.args[2], c.args[1]), One)
\* D/d or b/a is greater than 1.
RatioAboveOne(c) ==
    ~IsZero(c.args[1]) /\ flt(One, fdiv(c.args[2], c.args[1]))
\* sigma_c <= 0 or freq < 0.
BadMaterial(c) == fle(c.args[7], Zero(0)) \/ flt(c.args[9], Zero(0))
\* The inputs the data model allows.
ValidInputs(c) ==
    /\ RatioAboveOne(c)
    /\ ~BadMaterial(c)
    /\ fle(Zero(0), c.args[6])
    /\ fle(Zero(0), c.args[8])
AllFinite(val) == \A key \in DOMAIN val : IsFinite(val[key])
Positive(x) == IsFinite(x) /\ flt(Zero(0), x)

\* 2^(3 - Prec): the relative error a few roundings can add up to.
Tol == [k |-> "fin", s |-> 0, m |-> 2^(Prec - 1), e |-> 4 - 2 * Prec]
\* x and y agree up to rounding.
Near(x, y) ==
    /\ IsFinite(x) /\ IsFinite(y)
    /\ fle(fabs(fsub(x, y)), fmul(fabs(x), Tol))

\* C1: a two-wire call with D/d <= 1 fails with InvalidGeometryError and
\* returns no record (the code returns a record holding 0, inf or nan).
C1_TwoWireRejectsRatioAtMostOne ==
    (TwoWire(cur) /\ RatioAtMostOne(cur)) =>
        Raised(cur, IF BadMaterial(cur)
                    THEN {"InvalidGeometryError", "InvalidMaterialError"}
                    ELSE {"InvalidGeometryError"})

\* C2: a coaxial call with b/a <= 1 fails with InvalidGeometryError and
\* returns no record (the code returns inf, nan or negative L and C).
C2_CoaxialRejectsRatioAtMostOne ==
    (Coaxial(cur) /\ RatioAtMostOne(cur)) =>
        Raised(cur, IF BadMaterial(cur)
                    THEN {"InvalidGeometryError", "InvalidMaterialError"}
                    ELSE {"InvalidGeometryError"})

\* C3: a call of either model with sigma_c <= 0 or freq < 0 fails with
\* InvalidMaterialError and returns no record.
C3_BadMaterialRejected ==
    (cur # None /\ BadMaterial(cur)) => Raised(cur, {"InvalidMaterialError"})

\* C4: every call either returns a record whose fields are all finite or
\* fails with InvalidGeometryError or InvalidMaterialError.
C4_FiniteRecordOrValidationError ==
    cur # None =>
        \/ Returned(cur) /\ AllFinite(cur.ret.val)
        \/ Raised(cur, {"InvalidGeometryError", "InvalidMaterialError"})

\* C5 as stated: the record has the key G if and only if sigma is non-zero.
C5_GPresentIffSigmaNonZero ==
    Returned(cur) => (("G" \in DOMAIN cur.ret.val) <=> ~IsZero(cur.args[6]))

\* C5 as amended: every record returned by either model, to a client or to
\* the sweep, has exactly the keys R, L, C and G, whatever sigma is.
C5_RecordAlwaysHasG ==
    /\ Returned(cur) => DOMAIN cur.ret.val = Keys
    /\ Returned(prev) => DOMAIN prev.ret.val = Keys
    /\ params.kind = "return" => DOMAIN params.val = Keys

C5_Witness ==
    /\ Returned(cur) /\ IsZero(cur.args[6]) /\ RatioAboveOne(cur)
    /\ IsZero(cur.ret.val.G)

\* The data rows of the table accumulated so far.
Rows == IF csv_data = <<>> THEN <<>> ELSE Tail(csv_data)

SweepLengthsInOrder(t) ==
    /\ Len(t) = 51
    /\ t[1] = Header
    /\ \A i \in 1..50 : t[i + 1][1] = 100 * i

SweepSafe ==
    /\ Len(written) <= 1
    /\ written # <<>> => pc \in {"report", "done"} /\ written = <<csv_data>>
    /\ pc \in {"write", "report", "done"} => SweepLengthsInOrder(csv_data)
    /\ pc = "done" =>
           /\ written = <<csv_data>>
           /\ Len(console) = 55
           /\ console[3] = csv_data[1]
           /\ \A i \in 1..50 : console[4 + i] = csv_data[1 + i]

\* Iterations the loop still has to make when its variable is len.
IterationsLeft(len) ==
    IF len < RangeStop THEN (RangeStop - len + RangeStep - 1) \div RangeStep ELSE 0

\* Steps the script still has to take: every step of it takes one.
StepsLeft ==
    CASE pc = "banner" -> 4 * IterationsLeft(RangeStart) + 5
      [] pc = "csv_init" -> 4 * IterationsLeft(RangeStart) + 4
      [] pc = "for" -> 4 * IterationsLeft(main_length) + 3
      [] pc = "call" -> 4 * IterationsLeft(main_length) + 2
      [] pc = "print" -> 4 * IterationsLeft(main_length) + 1
      [] pc = "append" -> 4 * IterationsLeft(main_length)
      [] pc = "write" -> 2
      [] pc = "report" -> 1
      [] OTHER -> 0

\* C7: the sweep terminates (no call fails, and every step of the script
\* leaves fewer steps to take); its table is the header row followed by
\* exactly 50 rows for the lengths 100, 200, ..., 5000 in this order; the CSV
\* is written once, after the last row was accumulated; the console rows have
\* the order and the columns of the CSV rows.
C7_SweepTable ==
    /\ []SweepSafe
    /\ [](pc # "crashed" /\ (pc = "done" <=> (name = "__main__" /\ StepsLeft = 0)))
    /\ [][name = "__main__" => StepsLeft' < StepsLeft]_vars

C7_Witness == pc = "done" /\ Len(csv_data) = 51 /\ Len(written) = 1

\* The row of the sweep for length len.
RowOf(len) == csv_data[1 + len \div 100]

C9_Case(c) ==
    /\ TwoWire(c) /\ RatioAboveOne(c)
    /\ fle(Zero(0), c.args[8]) /\ ~BadMaterial(c)

StandaloneCall(len) ==
    cal_two_wire_params(main_d, main_D, main_epsilon_r, main_mu_ri, main_mu_rc,
                        main_sigma, main_sigma_c, FromInt(len), main_freq)

PureInv ==
    /\ (prev # None /\ prev.args = cur.args) => prev.ret = cur.ret
    /\ \A i \in 1..Len(Rows) :
           LET alone == StandaloneCall(Rows[i][1])
           IN /\ alone.kind = "return"
              /\ Rows[i] = <<Rows[i][1], alone.val.R, alone.val.L,
                             alone.val.C, alone.val.G>>

====
